---- MODULE Spec2Model ----
(***************************************************************************)
(* A model of telethon-sql: the SQLAlchemy session backend                 *)
(* (src/telethon_sql/session.py) and the migration of legacy .session      *)
(* files into it (src/migrate.py).                                         *)
(*                                                                         *)
(* The relational store is five tables, each a set of rows.  A Python      *)
(* value that may be None (a SQL column that may be NULL) is a sequence of *)
(* length 0 or 1: None is << >> and the value v is <<v>>.                  *)
(***************************************************************************)
EXTENDS Integers, Sequences, FiniteSets, TLC

VARIABLES
    schema,        \* TRUE once Base.metadata.create_all has created the tables
    version,       \* table version: the set of version numbers held
    sessions,      \* table sessions: set of SessionRow records
    entities,      \* table entities: set of Entity records
    update_state,  \* table update_state: set of UpdateState records
    sent_files,    \* table sent_files: set of SentFile records
    mem,           \* per client object: the MemorySession fields it holds
    clock,         \* int(time.time())
    op,            \* the last operation that ran: [name, client, arg, ret]
    proc,          \* per process: position in a step-by-step client construction
    tx,            \* per writer: an open process_entities transaction
    legacy,        \* the legacy directory: file name -> legacy database
    mig            \* the migration command in progress

vars == <<schema, version, sessions, entities, update_state, sent_files,
          mem, clock, op, proc, tx, legacy, mig>>

store == <<schema, version, sessions, entities, update_state, sent_files>>

(***************************************************************************)
(* Bounds of the model.                                                    *)
(***************************************************************************)
MaxTime == 2      \* the clock runs over 1..MaxTime
MaxBatch == 2     \* rows in one process_entities call

(***************************************************************************)
(* Values.                                                                 *)
(***************************************************************************)
None == << >>
Some(v) == <<v>>

\* Python truthiness of an optional integer: None and 0 are falsy.
TruthyInt(x) == x # None /\ x[1] # 0
\* Python truthiness of an optional string: None and "" are falsy.
TruthyStr(x) == x # None /\ x[1] # ""

DATABASE_VERSION == 1

Clients == {"c1", "c2", "c3"}
SessionNames == {"a", "default"}
\* The session_name each client object was constructed with.
session_name(c) == IF c = "c3" THEN "default" ELSE "a"

\* MemorySession.__init__: the fields of a fresh object.
FreshMem == [live |-> TRUE, dc_id |-> Some(0), server_address |-> None,
             port |-> None, auth_key |-> None, takeout_id |-> None]
NoClient == [live |-> FALSE, dc_id |-> Some(0), server_address |-> None,
             port |-> None, auth_key |-> None, takeout_id |-> None]

\* Session.merge of a row: insert it, or replace every column of the row
\* with the same primary key.
MergeSessionRow(tbl, row) ==
    {r \in tbl : r.session_name # row.session_name} \cup {row}
MergeEntity(tbl, row) ==
    {r \in tbl : ~(r.session_name = row.session_name /\ r.id = row.id)} \cup {row}
MergeUpdateState(tbl, row) ==
    {r \in tbl : ~(r.session_name = row.session_name /\ r.id = row.id)} \cup {row}
\* MergeSentFile, were type not part of the primary key of sent_files.
MergeSentFileAnyType(tbl, row) ==
    {r \in tbl : ~(r.session_name = row.session_name
                   /\ r.md5_digest = row.md5_digest
                   /\ r.file_size = row.file_size)} \cup {row}
MergeSentFile(tbl, row) ==
    {r \in tbl : ~(r.session_name = row.session_name
                   /\ r.md5_digest = row.md5_digest
                   /\ r.file_size = row.file_size
                   /\ r.type = row.type)} \cup {row}

(***************************************************************************)
(* Schema and session row (sequential: the whole constructor in one step). *)
(***************************************************************************)
\* _ensure_schema: the version table after it.
EnsureVersion(ver) ==
    IF DATABASE_VERSION \in ver THEN ver ELSE ver \cup {DATABASE_VERSION}

\* The session row _load_existing_session creates for a fresh object.
InitialSessionRow(sn, m) ==
    [session_name |-> sn, dc_id |-> m.dc_id, server_address |-> m.server_address,
     port |-> m.port, auth_key |-> "", takeout_id |-> m.takeout_id]

\* The fields _load_existing_session reads from an existing row.
LoadedMem(row) ==
    [live |-> TRUE,
     dc_id |-> IF TruthyInt(row.dc_id) THEN row.dc_id ELSE Some(0),
     server_address |-> row.server_address,
     port |-> row.port,
     auth_key |-> IF row.auth_key # "" THEN Some(row.auth_key) ELSE None,
     takeout_id |-> row.takeout_id]

SessionRowsOf(tbl, sn) == {r \in tbl : r.session_name = sn}

\* _load_existing_session: <<the sessions table, the object's fields>> after it.
LoadExistingSession(tbl, sn) ==
    IF SessionRowsOf(tbl, sn) # {}
    THEN <<tbl, LoadedMem(CHOOSE r \in SessionRowsOf(tbl, sn) : TRUE)>>
    ELSE <<MergeSessionRow(tbl, InitialSessionRow(sn, FreshMem)), FreshMem>>

\* SQLAlchemySession(db_url, session_name): __init__ run to the end.
Construct(c) ==
    /\ schema' = TRUE
    /\ version' = EnsureVersion(version)
    /\ sessions' = LoadExistingSession(sessions, session_name(c))[1]
    /\ mem' = [mem EXCEPT ![c] = LoadExistingSession(sessions, session_name(c))[2]]
    /\ op' = [name |-> "init", client |-> c, arg |-> None, ret |-> None]
    /\ UNCHANGED <<entities, update_state, sent_files, clock, proc, tx, legacy, mig>>

(***************************************************************************)
(* Session core state.                                                     *)
(***************************************************************************)
\* _update_session_row, had it left takeout_id out of the row it merges.
UpdateSessionRowNoTakeout(tbl, sn, m) ==
    MergeSessionRow(tbl,
        [session_name |-> sn, dc_id |-> m.dc_id,
         server_address |-> m.server_address, port |-> m.port,
         auth_key |-> IF m.auth_key # None THEN m.auth_key[1] ELSE "",
         takeout_id |-> None])

\* _update_session_row: merge a row built from every field the object holds.
UpdateSessionRow(tbl, sn, m) ==
    MergeSessionRow(tbl,
        [session_name |-> sn, dc_id |-> m.dc_id,
         server_address |-> m.server_address, port |-> m.port,
         auth_key |-> IF m.auth_key # None THEN m.auth_key[1] ELSE "",
         takeout_id |-> m.takeout_id])

\* The auth key set_dc reads back from the stored row.
StoredAuthKey(tbl, sn) ==
    IF \E r \in SessionRowsOf(tbl, sn) : r.auth_key # ""
    THEN Some((CHOOSE r \in SessionRowsOf(tbl, sn) : TRUE).auth_key)
    ELSE None

\* set_dc: <<the sessions table, the object's fields>> after it.
SetDc(tbl, sn, m, dc, addr, port) ==
    LET m1 == [m EXCEPT !.dc_id = IF TruthyInt(dc) THEN dc ELSE Some(0),
                        !.server_address = addr, !.port = port]
        t1 == UpdateSessionRow(tbl, sn, m1)
    IN  <<t1, [m1 EXCEPT !.auth_key = StoredAuthKey(t1, sn)]>>

\* auth_key setter.
SetAuthKey(tbl, sn, m, key) ==
    LET m1 == [m EXCEPT !.auth_key = key]
    IN  <<UpdateSessionRow(tbl, sn, m1), m1>>

\* takeout_id setter.
SetTakeoutId(tbl, sn, m, tid) ==
    LET m1 == [m EXCEPT !.takeout_id = tid]
    IN  <<UpdateSessionRow(tbl, sn, m1), m1>>

(***************************************************************************)
(* Update state.  A datetime is the record [epoch |-> seconds]; a State is *)
(* [pts, qts, date, seq] with date a datetime or None.                     *)
(***************************************************************************)
DateTime(n) == [epoch |-> n]

\* int(state.date.timestamp()) if state.date else None: every datetime is truthy.
DateToColumn(date) == IF date # None THEN Some(date[1].epoch) ELSE None

\* datetime.fromtimestamp(row.date, tz=utc) if row.date else None.
ColumnToDate(col) == IF TruthyInt(col) THEN Some(DateTime(col[1])) ELSE None

UpdateStateRowsOf(tbl, sn, id) == {r \in tbl : r.session_name = sn /\ r.id = id}

\* set_update_state: the update_state table after it.
SetUpdateState(tbl, sn, id, state) ==
    MergeUpdateState(tbl,
        [session_name |-> sn, id |-> id, pts |-> state.pts, qts |-> state.qts,
         date |-> DateToColumn(state.date), seq |-> state.seq])

\* get_update_state: the State returned, or None without a row.
GetUpdateState(tbl, sn, id) ==
    IF UpdateStateRowsOf(tbl, sn, id) = {} THEN None
    ELSE LET row == CHOOSE r \in UpdateStateRowsOf(tbl, sn, id) : TRUE
         IN  Some([pts |-> row.pts, qts |-> row.qts,
                   date |-> ColumnToDate(row.date), seq |-> row.seq])

set_update_state(c, id, state) ==
    /\ mem[c].live
    /\ update_state' = SetUpdateState(update_state, session_name(c), id, state)
    /\ op' = [name |-> "set_update_state", client |-> c,
              arg |-> <<id, state>>, ret |-> None]
    /\ UNCHANGED <<schema, version, sessions, entities, sent_files, mem, clock,
                   proc, tx, legacy, mig>>

get_update_state(c, id) ==
    /\ mem[c].live
    /\ op' = [name |-> "get_update_state", client |-> c, arg |-> <<id>>,
              ret |-> GetUpdateState(update_state, session_name(c), id)]
    /\ UNCHANGED <<store, mem, clock, proc, tx, legacy, mig>>

(***************************************************************************)
(* File cache.  A remote reference is [cls, id, access_hash].              *)
(***************************************************************************)
DOCUMENT == 0
PHOTO == 1

\* The isinstance check of cache_file, had it let every reference through.
IsCacheableAny(instance) == TRUE

\* isinstance(instance, (InputDocument, InputPhoto))
IsCacheable(instance) == instance.cls \in {"InputDocument", "InputPhoto"}

\* _SentFileType.from_type(cls).value
SentFileType(cls) == IF cls = "InputDocument" THEN DOCUMENT ELSE PHOTO

\* cache_file past its isinstance check: the sent_files table after it.
CacheFile(tbl, sn, md5, size, instance) ==
    MergeSentFile(tbl,
        [session_name |-> sn, md5_digest |-> md5, file_size |-> size,
         type |-> SentFileType(instance.cls), id |-> instance.id,
         hash |-> instance.access_hash])

cache_file(c, md5, size, instance) ==
    /\ mem[c].live
    /\ IF IsCacheable(instance)
       THEN /\ sent_files' = CacheFile(sent_files, session_name(c), md5, size, instance)
            /\ op' = [name |-> "cache_file", client |-> c,
                      arg |-> <<md5, size, instance>>, ret |-> None]
       ELSE /\ sent_files' = sent_files
            /\ op' = [name |-> "cache_file", client |-> c,
                      arg |-> <<md5, size, instance>>, ret |-> Some("TypeError")]
    /\ UNCHANGED <<schema, version, sessions, entities, update_state, mem, clock,
                   proc, tx, legacy, mig>>

(***************************************************************************)
(* Entities.  An input row of process_entities is what the inherited       *)
(* _entities_to_rows yields: [id, hash, username, phone, name], the        *)
(* username None or a non-empty lowercase string.                          *)
(***************************************************************************)
EntityRow(sn, e, date) ==
    [session_name |-> sn, id |-> e.id, hash |-> e.hash, username |-> e.username,
     phone |-> e.phone, name |-> e.name, date |-> date]

\* order_by(Entity.date.asc().nullsfirst()): NULL sorts before every date.
DateRank(d) == IF d = None THEN -1 ELSE d[1]

\* RowsWithUsername without its where clause on session_name.
RowsWithUsernameAnySession(tbl, sn, u) ==
    {r \in tbl : r.username = Some(u)}

\* select ... where session_name == sn and username == u
RowsWithUsername(tbl, sn, u) ==
    {r \in tbl : r.session_name = sn /\ r.username = Some(u)}

\* The rows the ordered select may return last: the order among rows of
\* equal date is the database's.
LastByDate(rows) ==
    {r \in rows : \A q \in rows : DateRank(q.date) <= DateRank(r.date)}

\* NullUsernames, had it deleted the rows instead of updating them.
DeleteUsernameRows(tbl, sn, ids) ==
    {r \in tbl : ~(r.session_name = sn /\ r.id \in ids)}

\* update(Entity).where(session_name == sn).where(id in ids).values(username=None)
NullUsernames(tbl, sn, ids) ==
    {IF r.session_name = sn /\ r.id \in ids THEN [r EXCEPT !.username = None] ELSE r
       : r \in tbl}

\* EvictOlder with the test len(dups) > 1 off by one.
EvictOlderOffByOne(tbl, sn, u) ==
    LET dups == RowsWithUsername(tbl, sn, u)
    IN  IF Cardinality(dups) > 2
        THEN {NullUsernames(tbl, sn, {r.id : r \in dups \ {keep}})
                : keep \in LastByDate(dups)}
        ELSE {tbl}

\* The eviction of older duplicates of username u: every table it may leave.
EvictOlder(tbl, sn, u) ==
    LET dups == RowsWithUsername(tbl, sn, u)
    IN  IF Cardinality(dups) > 1
        THEN {NullUsernames(tbl, sn, {r.id : r \in dups \ {keep}})
                : keep \in LastByDate(dups)}
        ELSE {tbl}

\* The loop of process_entities over its rows: every table it may leave.
RECURSIVE ProcessRows(_, _, _, _)
ProcessRows(tbl, sn, rows, now_ts) ==
    IF rows = << >> THEN {tbl}
    ELSE LET e == Head(rows)
             merged == MergeEntity(tbl, EntityRow(sn, e, Some(now_ts)))
             evicted == IF TruthyStr(e.username)
                        THEN EvictOlder(merged, sn, e.username[1])
                        ELSE {merged}
         IN  UNION {ProcessRows(t, sn, Tail(rows), now_ts) : t \in evicted}

process_entities(c, rows) ==
    /\ mem[c].live
    /\ rows # << >>
    /\ entities' \in ProcessRows(entities, session_name(c), rows, clock)
    /\ op' = [name |-> "process_entities", client |-> c, arg |-> rows, ret |-> None]
    /\ UNCHANGED <<schema, version, sessions, update_state, sent_files, mem, clock,
                   proc, tx, legacy, mig>>

\* LastByDateOrZero, had the sort been descending.
FirstByDateOrZero(rows) ==
    {r \in rows : \A q \in rows :
        (IF TruthyInt(r.date) THEN r.date[1] ELSE 0)
            <= (IF TruthyInt(q.date) THEN q.date[1] ELSE 0)}

\* results.sort(key=lambda t: t[2] or 0): the rows that may end up last.
LastByDateOrZero(rows) ==
    {r \in rows : \A q \in rows :
        (IF TruthyInt(q.date) THEN q.date[1] ELSE 0)
            <= (IF TruthyInt(r.date) THEN r.date[1] ELSE 0)}

get_entity_rows_by_username(c, username) ==
    /\ mem[c].live
    /\ LET results == RowsWithUsername(entities, session_name(c), username)
       IN  IF results = {}
           THEN /\ entities' = entities
                /\ op' = [name |-> "get_entity_rows_by_username", client |-> c,
                          arg |-> <<username>>, ret |-> None]
           ELSE \E last \in LastByDateOrZero(results) :
                /\ entities' = IF Cardinality(results) > 1
                               THEN NullUsernames(entities, session_name(c),
                                                  {r.id : r \in results \ {last}})
                               ELSE entities
                /\ op' = [name |-> "get_entity_rows_by_username", client |-> c,
                          arg |-> <<username>>, ret |-> Some(<<last.id, last.hash>>)]
    /\ UNCHANGED <<schema, version, sessions, update_state, sent_files, mem, clock,
                   proc, tx, legacy, mig>>

(***************************************************************************)
(* Persistence lifecycle.                                                  *)
(***************************************************************************)
\* DeleteRowsOf without its where clause.
DeleteEveryRow(tbl, sn) == {}

\* delete(Table).where(Table.session_name == sn)
DeleteRowsOf(tbl, sn) == {r \in tbl : r.session_name # sn}

\* The rowcount of that statement (recorded in op; the code drops it).
RowCount(tbl, sn) == Cardinality({r \in tbl : r.session_name = sn})

delete(c) ==
    /\ mem[c].live
    /\ sent_files' = DeleteRowsOf(sent_files, session_name(c))
    /\ entities' = DeleteRowsOf(entities, session_name(c))
    /\ update_state' = DeleteRowsOf(update_state, session_name(c))
    /\ sessions' = DeleteRowsOf(sessions, session_name(c))
    /\ op' = [name |-> "delete", client |-> c,
              arg |-> <<RowCount(sent_files, session_name(c)),
                        RowCount(entities, session_name(c)),
                        RowCount(update_state, session_name(c)),
                        RowCount(sessions, session_name(c))>>,
              ret |-> Some(TRUE)]
    /\ UNCHANGED <<schema, version, mem, clock, proc, tx, legacy, mig>>

\* The order sorted() puts session names in.
NameBefore(a, b) == a = "a" /\ b = "default"

\* list(sorted(set(names)))
RECURSIVE SortedNames(_)
SortedNames(names) ==
    IF names = {} THEN << >>
    ELSE LET first == CHOOSE n \in names : \A m \in names : ~NameBefore(m, n)
         IN  <<first>> \o SortedNames(names \ {first})

\* list_sessions: [] without the sessions table, else the sorted names.
ListSessions(has_table, tbl) ==
    IF ~has_table THEN << >> ELSE SortedNames({r.session_name : r \in tbl})

list_sessions ==
    /\ op' = [name |-> "list_sessions", client |-> "", arg |-> None,
              ret |-> ListSessions(schema, sessions)]
    /\ UNCHANGED <<store, mem, clock, proc, tx, legacy, mig>>

\* A second passes.
Tick ==
    /\ clock < MaxTime
    /\ clock' = clock + 1
    /\ op' = [name |-> "tick", client |-> "", arg |-> None, ret |-> None]
    /\ UNCHANGED <<store, mem, proc, tx, legacy, mig>>

(***************************************************************************)
(* Initial state: an empty database, no client object constructed.         *)
(***************************************************************************)
NoOp == [name |-> "none", client |-> "", arg |-> None, ret |-> None]

InitStore ==
    /\ schema = FALSE
    /\ version = {}
    /\ sessions = {}
    /\ entities = {}
    /\ update_state = {}
    /\ sent_files = {}
    /\ mem = [c \in Clients |-> NoClient]
    /\ clock = 1
    /\ op = NoOp

Init ==
    /\ InitStore
    /\ proc = << >>
    /\ tx = << >>
    /\ legacy = << >>
    /\ mig = << >>

(***************************************************************************)
(* Inputs.                                                                 *)
(***************************************************************************)
PeerIds == {1, 2}
Usernames == {"bob", "amy"}

\* Non-empty sequences of at most n of the given rows.
Batches(rows, n) == UNION {[1..k -> rows] : k \in 1..n}

\* Input rows that differ in id and username only.
UsernameRows(ids, names) ==
    [id : ids, hash : {11}, username : {None} \cup {Some(u) : u \in names},
     phone : {None}, name : {None}]

States ==
    [pts : {100}, qts : {50}, seq : {7},
     date : {None, Some(DateTime(0)), Some(DateTime(1))}]

Instances ==
    [cls : {"InputDocument", "InputPhoto", "InputFile"}, id : {5}, access_hash : {6}]

(***************************************************************************)
(* Spec: the whole store API, one call at a time, by one client on each of *)
(* the two session names.                                                  *)
(***************************************************************************)
StoreClients == {"c1", "c3"}

Next ==
    \/ \E c \in StoreClients : Construct(c)
    \/ \E c \in StoreClients : \E rows \in Batches(UsernameRows({1}, {"bob"}), 1) :
          process_entities(c, rows)
    \/ \E c \in StoreClients : get_entity_rows_by_username(c, "bob")
    \/ \E c \in StoreClients : \E state \in States : set_update_state(c, 1, state)
    \/ \E c \in StoreClients : get_update_state(c, 1)
    \/ \E c \in StoreClients : \E instance \in Instances :
          cache_file(c, "d", 1, instance)
    \/ \E c \in StoreClients : delete(c)
    \/ list_sessions

Spec == Init /\ [][Next]_vars

(***************************************************************************)
(* SpecEntities: the entity cache, one call at a time, the clock running.  *)
(* Session "a" gets batches over every peer id; its neighbour "default"    *)
(* gets single rows for peer 1, so that both hold the same ids and         *)
(* usernames.                                                              *)
(***************************************************************************)
EntityBatches(c) ==
    IF session_name(c) = "a"
    THEN Batches(UsernameRows(PeerIds, {"bob"}), MaxBatch)
    ELSE Batches(UsernameRows({1}, {"bob"}), 1)

NextEntities ==
    \/ \E c \in StoreClients : Construct(c)
    \/ \E c \in StoreClients : \E rows \in EntityBatches(c) :
          process_entities(c, rows)
    \/ \E c \in StoreClients : get_entity_rows_by_username(c, "bob")
    \/ \E c \in StoreClients : delete(c)
    \/ Tick

SpecEntities == Init /\ [][NextEntities]_vars

(***************************************************************************)
(* Claims on the sequential store.                                         *)
(***************************************************************************)

\* C1: with one writer at a time, in every state (so after each
\* process_entities call, not only at the end) no two Entity rows of one
\* session hold the same non-null username: a username that is present is
\* held by exactly one row of its session.
C1_UsernameHeldOnce ==
    \A r1 \in entities : \A r2 \in entities :
        (/\ r1.session_name = r2.session_name
         /\ r1.username # None
         /\ r1.username = r2.username) => r1 = r2

\* C1 witness: a call wrote the same username for two peer ids, and one of
\* the two rows holds it while the other was evicted (its username is None).
C1_EvictedInBatch ==
    /\ op.name = "process_entities"
    /\ \E i \in DOMAIN op.arg : \E j \in DOMAIN op.arg :
          /\ op.arg[i].id # op.arg[j].id
          /\ op.arg[i].username # None
          /\ op.arg[i].username = op.arg[j].username
          /\ \E r1 \in entities : \E r2 \in entities :
                /\ r1.session_name = session_name(op.client)
                /\ r2.session_name = session_name(op.client)
                /\ r1.id = op.arg[i].id /\ r2.id = op.arg[j].id
                /\ (r1.username = None) # (r2.username = None)

\* The set of elements of a sequence.
Range(seq) == {seq[i] : i \in DOMAIN seq}

OtherRows(tbl, sn) == {r \in tbl : r.session_name # sn}

\* C9: a delete step leaves no row of the client's session name in any of
\* the four per-session tables, list_sessions no longer holds the name, and
\* the rows of every other session name, the names list_sessions gives for
\* them, and the version marker are as before.
C9_DeleteRemovesItsSessionOnly ==
    [][op'.name = "delete" =>
        LET sn == session_name(op'.client) IN
        /\ \A r \in sessions' \cup entities' \cup update_state' \cup sent_files' :
              r.session_name # sn
        /\ sn \notin Range(ListSessions(schema', sessions'))
        /\ Range(ListSessions(schema', sessions'))
             = Range(ListSessions(schema, sessions)) \ {sn}
        /\ OtherRows(sessions', sn) = OtherRows(sessions, sn)
        /\ OtherRows(entities', sn) = OtherRows(entities, sn)
        /\ OtherRows(update_state', sn) = OtherRows(update_state, sn)
        /\ OtherRows(sent_files', sn) = OtherRows(sent_files, sn)
        /\ version' = version /\ schema' = schema]_vars

\* C9 witness: a delete removed rows from each of the four tables while
\* another session name holds rows in each of them.
C9_DeletedAmongOthers ==
    /\ op.name = "delete"
    /\ \A i \in 1..4 : op.arg[i] > 0
    /\ \E sn \in SessionNames :
          /\ sn # session_name(op.client)
          /\ \E r \in sessions : r.session_name = sn
          /\ \E r \in entities : r.session_name = sn
          /\ \E r \in update_state : r.session_name = sn
          /\ \E r \in sent_files : r.session_name = sn

\* C10 as claimed: right after set_update_state(id, state), get_update_state
\* for the same session and id returns the four values of state, whatever
\* its timestamp (None, the epoch, any later second).
C10_CursorRoundTrip ==
    [][op'.name = "set_update_state" =>
        GetUpdateState(update_state', session_name(op'.client), op'.arg[1])
            = Some(op'.arg[2])]_vars

(***************************************************************************)
(* SpecInit: several processes construct a client at the same time.  The   *)
(* constructor is taken statement by statement: every SELECT, and every    *)
(* INSERT or UPDATE a commit flushes, is a step of its own, and the        *)
(* database refuses an INSERT whose primary key is already there.          *)
(* proc[c] = [pc, found, error]: found is what the last SELECT saw.        *)
(***************************************************************************)
StartProc == [pc |-> "create_all", found |-> FALSE, error |-> ""]

Goto(c, pc) == proc' = [proc EXCEPT ![c].pc = pc]
Raise(c, error) == proc' = [proc EXCEPT ![c].pc = "error", ![c].error = error]

\* create_all(checkfirst): the has_table query.
create_all_check(c) ==
    /\ proc[c].pc = "create_all"
    /\ proc' = [proc EXCEPT ![c].pc = "create_tables", ![c].found = schema]
    /\ op' = [name |-> "create_all_check", client |-> c, arg |-> None, ret |-> None]
    /\ UNCHANGED <<store, mem, clock, tx, legacy, mig>>

\* create_all(checkfirst): CREATE TABLE for the tables the query missed.
create_all_create(c) ==
    /\ proc[c].pc = "create_tables"
    /\ IF proc[c].found
       THEN Goto(c, "get_version") /\ schema' = schema
       ELSE IF schema
            THEN Raise(c, "TableExists") /\ schema' = schema
            ELSE Goto(c, "get_version") /\ schema' = TRUE
    /\ op' = [name |-> "create_all_create", client |-> c, arg |-> None, ret |-> None]
    /\ UNCHANGED <<version, sessions, entities, update_state, sent_files,
                   mem, clock, tx, legacy, mig>>

\* _ensure_schema: existing = s.get(Version, DATABASE_VERSION)
ensure_schema_get(c) ==
    /\ proc[c].pc = "get_version"
    /\ Goto(c, IF DATABASE_VERSION \in version THEN "get_session" ELSE "merge_version")
    /\ op' = [name |-> "ensure_schema_get", client |-> c, arg |-> None, ret |-> None]
    /\ UNCHANGED <<store, mem, clock, tx, legacy, mig>>

\* _ensure_schema: s.merge(Version(...)) looks the row up again.
ensure_schema_merge(c) ==
    /\ proc[c].pc = "merge_version"
    /\ proc' = [proc EXCEPT ![c].pc = "commit_version",
                            ![c].found = (DATABASE_VERSION \in version)]
    /\ op' = [name |-> "ensure_schema_merge", client |-> c, arg |-> None, ret |-> None]
    /\ UNCHANGED <<store, mem, clock, tx, legacy, mig>>

\* _ensure_schema: s.commit() inserts the row the merge did not find.
ensure_schema_commit(c) ==
    /\ proc[c].pc = "commit_version"
    /\ IF proc[c].found
       THEN Goto(c, "get_session") /\ version' = version
       ELSE IF DATABASE_VERSION \in version
            THEN Raise(c, "VersionIntegrityError") /\ version' = version
            ELSE Goto(c, "get_session") /\ version' = version \cup {DATABASE_VERSION}
    /\ op' = [name |-> "ensure_schema_commit", client |-> c, arg |-> None, ret |-> None]
    /\ UNCHANGED <<schema, sessions, entities, update_state, sent_files,
                   mem, clock, tx, legacy, mig>>

\* _load_existing_session: row = s.get(SessionRow, self.session_name)
load_existing_session_get(c) ==
    /\ proc[c].pc = "get_session"
    /\ IF SessionRowsOf(sessions, session_name(c)) # {}
       THEN /\ Goto(c, "done")
            /\ mem' = [mem EXCEPT ![c] =
                  LoadedMem(CHOOSE r \in SessionRowsOf(sessions, session_name(c)) : TRUE)]
       ELSE Goto(c, "merge_session") /\ mem' = mem
    /\ op' = [name |-> "load_existing_session_get", client |-> c,
              arg |-> None, ret |-> None]
    /\ UNCHANGED <<store, clock, tx, legacy, mig>>

\* _load_existing_session: s.merge(SessionRow(...)) looks the row up again.
load_existing_session_merge(c) ==
    /\ proc[c].pc = "merge_session"
    /\ proc' = [proc EXCEPT ![c].pc = "commit_session",
                  ![c].found = (SessionRowsOf(sessions, session_name(c)) # {})]
    /\ op' = [name |-> "load_existing_session_merge", client |-> c,
              arg |-> None, ret |-> None]
    /\ UNCHANGED <<store, mem, clock, tx, legacy, mig>>

\* _load_existing_session: s.commit() updates the row the merge found, or
\* inserts the initial row.
load_existing_session_commit(c) ==
    /\ proc[c].pc = "commit_session"
    /\ IF ~proc[c].found /\ SessionRowsOf(sessions, session_name(c)) # {}
       THEN Raise(c, "SessionIntegrityError") /\ sessions' = sessions /\ mem' = mem
       ELSE /\ Goto(c, "done")
            /\ sessions' = MergeSessionRow(sessions,
                              InitialSessionRow(session_name(c), FreshMem))
            /\ mem' = [mem EXCEPT ![c] = FreshMem]
    /\ op' = [name |-> "load_existing_session_commit", client |-> c,
              arg |-> None, ret |-> None]
    /\ UNCHANGED <<schema, version, entities, update_state, sent_files,
                   clock, tx, legacy, mig>>

InitConstruct ==
    /\ InitStore
    /\ proc = [c \in Clients |-> StartProc]
    /\ tx = << >>
    /\ legacy = << >>
    /\ mig = << >>

NextConstruct ==
    \/ \E c \in Clients : create_all_check(c)
    \/ \E c \in Clients : create_all_create(c)
    \/ \E c \in Clients : ensure_schema_get(c)
    \/ \E c \in Clients : ensure_schema_merge(c)
    \/ \E c \in Clients : ensure_schema_commit(c)
    \/ \E c \in Clients : load_existing_session_get(c)
    \/ \E c \in Clients : load_existing_session_merge(c)
    \/ \E c \in Clients : load_existing_session_commit(c)

SpecInit == InitConstruct /\ [][NextConstruct]_vars

\* C3 as claimed: whatever the interleaving of the constructors, no
\* _load_existing_session call ends in an error, and each call that has
\* returned finds exactly one SessionRow of its session name, the one whose
\* fields the client now holds.
C3_GetOrCreateIsAtomic ==
    \A c \in Clients :
        /\ proc[c].error # "SessionIntegrityError"
        /\ proc[c].pc = "done" =>
              /\ Cardinality(SessionRowsOf(sessions, session_name(c))) = 1
              /\ \A r \in SessionRowsOf(sessions, session_name(c)) : mem[c] = LoadedMem(r)

\* C4 as claimed: whatever the interleaving, no _ensure_schema call fails,
\* and once a call is past it the version table holds exactly the marker.
C4_EnsureSchemaIsRaceSafe ==
    \A c \in Clients :
        /\ proc[c].error \notin {"TableExists", "VersionIntegrityError"}
        /\ proc[c].pc \in {"get_session", "merge_session", "commit_session", "done"}
              => version = {DATABASE_VERSION}

(***************************************************************************)
(* SpecWriters: two clients of session "a" run process_entities at the     *)
(* same time, each in the transaction of its own Session, on a database    *)
(* at READ COMMITTED (the engine URL may name any database).  The variable *)
(* entities is the committed table, what a reader sees.  tx[c].writes are  *)
(* the row versions c has written and not committed: only c sees them, and *)
(* they lock their rows against the other writer until c commits or rolls  *)
(* back.  Each statement is a step: the SELECT of s.merge, the INSERT or    *)
(* UPDATE it flushes, the SELECT of the duplicates, the UPDATE that nulls   *)
(* them, the COMMIT.                                                       *)
(***************************************************************************)
MaxTx == 1        \* process_entities calls per writer

Writers == {"c1", "c2"}

IdleTx == [pc |-> "idle", rows |-> << >>, now_ts |-> 0, writes |-> {},
           loaded |-> None, ids |-> {}, calls |-> 0]

SameKey(r, w) == r.session_name = w.session_name /\ r.id = w.id

\* What the statements of writer c see: the committed rows, under its own writes.
View(c) ==
    {r \in entities : ~\E w \in tx[c].writes : SameKey(r, w)} \cup tx[c].writes

\* Another writer holds an uncommitted version of the row (sn, id).
Locked(c, sn, id) ==
    \E d \in Writers \ {c} : \E w \in tx[d].writes :
        w.session_name = sn /\ w.id = id

\* The row (the loop's current input row) that s.merge builds.
MergedRow(c) == EntityRow(session_name(c), Head(tx[c].rows), Some(tx[c].now_ts))

\* After the statements for one input row: the next row, or the commit.
NextRow(t) ==
    [t EXCEPT !.rows = Tail(t.rows),
              !.pc = IF Tail(t.rows) = << >> THEN "commit" ELSE "merge",
              !.loaded = None, !.ids = {}]

\* with self._SessionLocal() as s: a new transaction for the call's rows.
tx_begin(c, rows) ==
    /\ mem[c].live
    /\ tx[c].pc = "idle"
    /\ tx[c].calls < MaxTx
    /\ rows # << >>
    /\ tx' = [tx EXCEPT ![c] = [IdleTx EXCEPT !.pc = "merge", !.rows = rows,
                                              !.now_ts = clock,
                                              !.calls = tx[c].calls + 1]]
    /\ op' = [name |-> "tx_begin", client |-> c, arg |-> None, ret |-> None]
    /\ UNCHANGED <<store, mem, clock, proc, legacy, mig>>

\* s.merge(Entity(...)): the SELECT by primary key.
tx_merge(c) ==
    /\ tx[c].pc = "merge"
    /\ LET found == {r \in View(c) : SameKey(r, MergedRow(c))}
       IN  tx' = [tx EXCEPT ![c].pc = "flush",
                            ![c].loaded = IF found = {} THEN None
                                          ELSE Some(CHOOSE r \in found : TRUE)]
    /\ op' = [name |-> "tx_merge", client |-> c, arg |-> None, ret |-> None]
    /\ UNCHANGED <<store, mem, clock, proc, legacy, mig>>

\* The UPDATE a flush issues for a loaded row: the columns whose value the
\* merge changed, on the row as it is now.
UpdatedRow(cur, loaded, new) ==
    [session_name |-> cur.session_name, id |-> cur.id,
     hash |-> IF new.hash # loaded.hash THEN new.hash ELSE cur.hash,
     username |-> IF new.username # loaded.username THEN new.username ELSE cur.username,
     phone |-> IF new.phone # loaded.phone THEN new.phone ELSE cur.phone,
     name |-> IF new.name # loaded.name THEN new.name ELSE cur.name,
     date |-> IF new.date # loaded.date THEN new.date ELSE cur.date]

AfterFlush(t) ==
    IF TruthyStr(Head(t.rows).username) THEN [t EXCEPT !.pc = "select"] ELSE NextRow(t)

\* The flush of the merged row: INSERT when the merge found no row (refused
\* with IntegrityError when the key is there by now), UPDATE otherwise.
tx_flush(c) ==
    /\ tx[c].pc = "flush"
    /\ LET new == MergedRow(c)
           cur == {r \in View(c) : SameKey(r, new)}
       IN  IF tx[c].loaded = None
           THEN /\ ~Locked(c, new.session_name, new.id)
                /\ IF cur # {}
                   THEN tx' = [tx EXCEPT ![c] = [IdleTx EXCEPT !.pc = "aborted",
                                                        !.calls = tx[c].calls]]
                   ELSE tx' = [tx EXCEPT ![c] =
                                 AfterFlush([tx[c] EXCEPT !.writes = @ \cup {new}])]
           ELSE IF new = tx[c].loaded[1] \/ cur = {}
                THEN tx' = [tx EXCEPT ![c] = AfterFlush(tx[c])]
                ELSE /\ ~Locked(c, new.session_name, new.id)
                     /\ tx' = [tx EXCEPT ![c] = AfterFlush([tx[c] EXCEPT !.writes =
                          {w \in @ : ~SameKey(w, new)}
                            \cup {UpdatedRow(CHOOSE r \in cur : TRUE, tx[c].loaded[1], new)}])]
    /\ op' = [name |-> "tx_flush", client |-> c, arg |-> None, ret |-> None]
    /\ UNCHANGED <<store, mem, clock, proc, legacy, mig>>

\* The ordered SELECT of the rows with the username, and ids_to_null.
tx_select(c) ==
    /\ tx[c].pc = "select"
    /\ LET dups == RowsWithUsername(View(c), session_name(c),
                                    Head(tx[c].rows).username[1])
       IN  IF Cardinality(dups) > 1
           THEN \E keep \in LastByDate(dups) :
                   tx' = [tx EXCEPT ![c].pc = "update",
                                    ![c].ids = {r.id : r \in dups \ {keep}}]
           ELSE tx' = [tx EXCEPT ![c] = NextRow(tx[c])]
    /\ op' = [name |-> "tx_select", client |-> c, arg |-> None, ret |-> None]
    /\ UNCHANGED <<store, mem, clock, proc, legacy, mig>>

\* update(Entity)...values(username=None) on ids_to_null.
tx_update(c) ==
    /\ tx[c].pc = "update"
    /\ \A id \in tx[c].ids : ~Locked(c, session_name(c), id)
    /\ LET hit == {r \in View(c) : r.session_name = session_name(c) /\ r.id \in tx[c].ids}
       IN  tx' = [tx EXCEPT ![c] = NextRow([tx[c] EXCEPT !.writes =
                     {w \in @ : ~\E r \in hit : SameKey(w, r)}
                       \cup {[r EXCEPT !.username = None] : r \in hit}])]
    /\ op' = [name |-> "tx_update", client |-> c, arg |-> None, ret |-> None]
    /\ UNCHANGED <<store, mem, clock, proc, legacy, mig>>

\* s.commit(): the writes become the committed rows.
tx_commit(c) ==
    /\ tx[c].pc = "commit"
    /\ entities' = View(c)
    /\ tx' = [tx EXCEPT ![c] = [IdleTx EXCEPT !.calls = tx[c].calls]]
    /\ op' = [name |-> "tx_commit", client |-> c, arg |-> None, ret |-> None]
    /\ UNCHANGED <<schema, version, sessions, update_state, sent_files,
                   mem, clock, proc, legacy, mig>>

\* The row a writer waits for: the one its next statement writes.
WaitsFor(c, d) ==
    \/ /\ tx[c].pc = "flush"
       /\ \E w \in tx[d].writes : SameKey(w, MergedRow(c))
    \/ /\ tx[c].pc = "update"
       /\ \E w \in tx[d].writes :
             w.session_name = session_name(c) /\ w.id \in tx[c].ids

\* Two writers wait for each other: the database rolls one of them back.
tx_deadlock(c) ==
    /\ \E d \in Writers \ {c} : WaitsFor(c, d) /\ WaitsFor(d, c)
    /\ tx' = [tx EXCEPT ![c] = [IdleTx EXCEPT !.pc = "aborted", !.calls = tx[c].calls]]
    /\ op' = [name |-> "tx_deadlock", client |-> c, arg |-> None, ret |-> None]
    /\ UNCHANGED <<store, mem, clock, proc, legacy, mig>>

\* The exception has left process_entities; the client may call again.
tx_failed(c) ==
    /\ tx[c].pc = "aborted"
    /\ tx' = [tx EXCEPT ![c].pc = "idle"]
    /\ op' = [name |-> "tx_failed", client |-> c, arg |-> None, ret |-> None]
    /\ UNCHANGED <<store, mem, clock, proc, legacy, mig>>

\* Both clients are constructed, on a database nobody else has written.
InitWriters ==
    /\ schema = TRUE
    /\ version = {DATABASE_VERSION}
    /\ sessions = {InitialSessionRow("a", FreshMem)}
    /\ entities = {}
    /\ update_state = {}
    /\ sent_files = {}
    /\ mem = [c \in Clients |-> IF c \in Writers THEN FreshMem ELSE NoClient]
    /\ clock = 1
    /\ op = NoOp
    /\ proc = << >>
    /\ tx = [c \in Writers |-> IdleTx]
    /\ legacy = << >>
    /\ mig = << >>

NextWriters ==
    \/ \E c \in Writers : \E rows \in Batches(UsernameRows(PeerIds, {"bob"}), MaxBatch) :
          tx_begin(c, rows)
    \/ \E c \in Writers : tx_merge(c)
    \/ \E c \in Writers : tx_flush(c)
    \/ \E c \in Writers : tx_select(c)
    \/ \E c \in Writers : tx_update(c)
    \/ \E c \in Writers : tx_commit(c)
    \/ \E c \in Writers : tx_deadlock(c)
    \/ \E c \in Writers : tx_failed(c)
    \/ Tick

SpecWriters == InitWriters /\ [][NextWriters]_vars

\* C2 as claimed: whatever the interleaving of two process_entities
\* transactions on one session name, the committed table never holds two
\* rows of the session with the same non-null username.
C2_NoCommittedDuplicate ==
    \A sn \in SessionNames : \A u \in Usernames :
        Cardinality(RowsWithUsername(entities, sn, u)) <= 1

(***************************************************************************)
(* SpecMigrate: migrate.py.  A directory entry is <<stem, suffix>>, its    *)
(* base name the two joined.  A legacy file is a record: whether the path  *)
(* exists, whether SQLite can read it, the tables it has, and the rows of  *)
(* each table in the order a select returns them.                          *)
(***************************************************************************)
LegacyTables == {"sessions", "entities", "update_state", "sent_files"}

Entries == {<<"a", ".session">>, <<"", ".session">>,
            <<"default", ".session">>, <<"default", "">>}

\* entry.endswith(".session")
EndsWithSession(entry) == entry[2] = ".session"

\* Lines 16-20: the session name of the call.
DerivedName(param, entry) ==
    IF TruthyStr(param) THEN param[1]
    ELSE LET base == IF EndsWithSession(entry) THEN entry[1]
                     ELSE entry[1] \o entry[2]
         IN  IF base # "" THEN base ELSE "default"

\* The object SQLAlchemySession(db_url, session_name=sn) of the call.
DstClient(sn) == IF sn = "default" THEN "c3" ELSE "c1"

\* str.lower on the usernames the legacy files hold.
Lower(s) == IF s = "Bob" THEN "bob" ELSE s

LegacyDates == {None} \cup {Some(t) : t \in 0..MaxTime}

LegacyEntity(id, username, date) ==
    [id |-> id, hash |-> 11, username |-> Some(username), phone |-> None,
     name |-> None, date |-> date]

LegacyCursor(id, date) ==
    [id |-> id, pts |-> 100, qts |-> 50, date |-> date, seq |-> 7]

LegacySentFile(type) ==
    [md5_digest |-> "d", file_size |-> 1, type |-> type, id |-> 5, hash |-> 6]

\* A readable legacy file with every table; its two entities share a
\* username but for the case, and carry the timestamps d1 and d2.
Valid(d1, d2) ==
    [exists |-> TRUE, corrupt |-> FALSE, tables |-> LegacyTables,
     sessions |-> <<[dc_id |-> Some(2), server_address |-> Some("h"),
                     port |-> Some(443), auth_key |-> Some("k"),
                     takeout_id |-> None]>>,
     entities |-> <<LegacyEntity(1, "Bob", d1), LegacyEntity(2, "bob", d2)>>,
     update_state |-> <<LegacyCursor(1, Some(1))>>,
     sent_files |-> <<LegacySentFile(DOCUMENT), LegacySentFile(PHOTO + 1)>>]

Sound == Valid(Some(1), None)
Absent == [Sound EXCEPT !.exists = FALSE]
Corrupt == [Sound EXCEPT !.corrupt = TRUE]
Without(t) == [Sound EXCEPT !.tables = @ \ {t}]
NullCursorDate ==
    [Sound EXCEPT !.update_state = <<LegacyCursor(1, Some(1)), LegacyCursor(2, None)>>]

\* cur.execute("select ... from t"): <<the exception, the rows>>.
Select(f, t) ==
    IF f.corrupt THEN <<"DatabaseError", << >>>>
    ELSE IF t \notin f.tables THEN <<"OperationalError", << >>>>
    ELSE <<"", f[t]>>

\* try: select ... except sqlite3.OperationalError: rows = []
TrySelect(f, t) ==
    IF Select(f, t)[1] = "OperationalError" THEN <<"", << >>>> ELSE Select(f, t)

\* The Entity that migration merges for a legacy row.
MigratedEntity(sn, e, now_ts) ==
    [session_name |-> sn, id |-> e.id, hash |-> e.hash,
     username |-> IF TruthyStr(e.username) THEN Some(Lower(e.username[1])) ELSE None,
     phone |-> e.phone, name |-> e.name,
     date |-> IF TruthyInt(e.date) THEN e.date ELSE Some(now_ts)]

\* Lines 62-89: the loop over the legacy entity rows, every table it may leave.
RECURSIVE MigrateRows(_, _, _, _)
MigrateRows(tbl, sn, rows, now_ts) ==
    IF rows = << >> THEN {tbl}
    ELSE LET e == Head(rows)
             merged == MergeEntity(tbl, MigratedEntity(sn, e, now_ts))
             evicted == IF TruthyStr(e.username)
                        THEN EvictOlder(merged, sn, Lower(e.username[1]))
                        ELSE {merged}
         IN  UNION {MigrateRows(t, sn, Tail(rows), now_ts) : t \in evicted}

\* Lines 99-110: <<the update_state table, the exception>> after the loop;
\* datetime.fromtimestamp(None) is a TypeError, the rows before it are stored.
RECURSIVE MigrateCursors(_, _, _)
MigrateCursors(tbl, sn, rows) ==
    IF rows = << >> THEN <<tbl, "">>
    ELSE LET r == Head(rows)
         IN  IF r.date = None THEN <<tbl, "TypeError">>
             ELSE MigrateCursors(
                      SetUpdateState(tbl, sn, r.id,
                          [pts |-> r.pts, qts |-> r.qts, seq |-> r.seq,
                           date |-> Some(DateTime(r.date[1]))]),
                      sn, Tail(rows))

\* Lines 122-126: the sent_files table after the loop; a row of neither
\* type is passed over.
RECURSIVE MigrateFiles(_, _, _)
MigrateFiles(tbl, sn, rows) ==
    IF rows = << >> THEN tbl
    ELSE LET r == Head(rows)
             cls == IF r.type = DOCUMENT THEN "InputDocument" ELSE "InputPhoto"
         IN  MigrateFiles(
                 IF r.type \in {DOCUMENT, PHOTO}
                 THEN CacheFile(tbl, sn, r.md5_digest, r.file_size,
                                [cls |-> cls, id |-> r.id, access_hash |-> r.hash])
                 ELSE tbl,
                 sn, Tail(rows))

\* The rows of the four tables that carry the session name sn.
Content(sn) ==
    [sessions |-> SessionRowsOf(sessions, sn),
     entities |-> {r \in entities : r.session_name = sn},
     update_state |-> {r \in update_state : r.session_name = sn},
     sent_files |-> {r \in sent_files : r.session_name = sn}]

\* mig: the command (mode "one" or "dir"), whether dir_path is a directory,
\* whether the module named at line 53 can be imported, the entries listdir
\* has yet to yield, and the call of migrate_sqlite_to_sqlalchemy under way:
\* its path, session_name argument, destination name, position, the
\* exception that left it, the rows of the destination name when it began.
\* outcomes is what migrate_directory has printed.
IdleMig(mode, isdir, importable) ==
    [mode |-> mode, isdir |-> isdir, importable |-> importable, todo |-> {},
     cur |-> <<"", "">>, param |-> None, sn |-> "", pc |-> "listdir",
     raised |-> None, outcomes |-> << >>, before |-> Content("")]

\* migrate_sqlite_to_sqlalchemy(entry, db_url, param) is called.
StartCall(m, entry, param) ==
    [m EXCEPT !.cur = entry, !.param = param, !.sn = DerivedName(param, entry),
              !.before = Content(DerivedName(param, entry)),
              !.raised = None, !.pc = "call"]

\* Raised, had migrate_directory no try around the call.
RaisedAbortsBatch(m, e) == [m EXCEPT !.pc = "failed", !.raised = Some(e)]

\* An exception leaves migrate_sqlite_to_sqlalchemy: migrate_directory
\* catches it, prints the failure and goes on with the next entry.
Raised(m, e) ==
    IF m.mode = "dir"
    THEN [m EXCEPT !.pc = "next", !.raised = Some(e),
                   !.outcomes = Append(@, <<m.cur, "Failed">>)]
    ELSE [m EXCEPT !.pc = "failed", !.raised = Some(e)]

\* migrate_sqlite_to_sqlalchemy returns.
Returned(m) ==
    IF m.mode = "dir"
    THEN [m EXCEPT !.pc = "next", !.outcomes = Append(@, <<m.cur, "Migrated">>)]
    ELSE [m EXCEPT !.pc = "done"]

MigOp(name) ==
    op' = [name |-> name, client |-> DstClient(mig.sn), arg |-> mig.cur,
           ret |-> mig'.raised]

\* Lines 12-27: the path is checked, the name derived, the file connected
\* to (SQLite reads nothing yet) and the destination session constructed.
migrate_open ==
    /\ mig.pc = "call"
    /\ IF ~legacy[mig.cur].exists
       THEN /\ mig' = Raised(mig, "FileNotFoundError")
            /\ UNCHANGED <<schema, version, sessions, mem>>
       ELSE /\ schema' = TRUE
            /\ version' = EnsureVersion(version)
            /\ sessions' = LoadExistingSession(sessions, mig.sn)[1]
            /\ mem' = [mem EXCEPT ![DstClient(mig.sn)] =
                           LoadExistingSession(sessions, mig.sn)[2]]
            /\ mig' = [mig EXCEPT !.pc = "sessions"]
    /\ MigOp("migrate_open")
    /\ UNCHANGED <<entities, update_state, sent_files, clock, proc, tx, legacy>>

\* Lines 33-42: <<the sessions table, the object's fields>> after the first
\* legacy session row, if there is one, is written through the setters.
MigrateSessionRow(tbl, sn, m, rows) ==
    IF rows = << >> THEN <<tbl, m>>
    ELSE LET row == Head(rows)
         IN  CHOOSE s3 \in
               {SetTakeoutId(s2[1], sn, s2[2], row.takeout_id) :
                  s2 \in {IF TruthyStr(row.auth_key)
                          THEN SetAuthKey(s1[1], sn, s1[2], row.auth_key)
                          ELSE s1 :
                            s1 \in {SetDc(tbl, sn, m, row.dc_id,
                                          row.server_address, row.port)}}} : TRUE

\* Lines 29-42: the select on sessions stands outside any try.
migrate_sessions ==
    /\ mig.pc = "sessions"
    /\ LET sel == Select(legacy[mig.cur], "sessions")
           c == DstClient(mig.sn)
       IN  IF sel[1] # ""
           THEN /\ mig' = Raised(mig, sel[1])
                /\ UNCHANGED <<sessions, mem>>
           ELSE /\ sessions' = MigrateSessionRow(sessions, mig.sn, mem[c], sel[2])[1]
                /\ mem' = [mem EXCEPT ![c] =
                              MigrateSessionRow(sessions, mig.sn, mem[c], sel[2])[2]]
                /\ mig' = [mig EXCEPT !.pc = "entities"]
    /\ MigOp("migrate_sessions")
    /\ UNCHANGED <<schema, version, entities, update_state, sent_files,
                   clock, proc, tx, legacy>>

\* Lines 44-90: the entities, in one transaction.
migrate_entities ==
    /\ mig.pc = "entities"
    /\ LET sel == TrySelect(legacy[mig.cur], "entities")
       IN  IF sel[1] # ""
           THEN mig' = Raised(mig, sel[1]) /\ UNCHANGED entities
           ELSE IF sel[2] = << >>
           THEN mig' = [mig EXCEPT !.pc = "update_state"] /\ UNCHANGED entities
           ELSE IF ~mig.importable
           THEN mig' = Raised(mig, "ModuleNotFoundError") /\ UNCHANGED entities
           ELSE /\ entities' \in MigrateRows(entities, mig.sn, sel[2], clock)
                /\ mig' = [mig EXCEPT !.pc = "update_state"]
    /\ MigOp("migrate_entities")
    /\ UNCHANGED <<schema, version, sessions, update_state, sent_files, mem,
                   clock, proc, tx, legacy>>

\* Lines 92-110: the cursors, each set_update_state committing its row.
migrate_update_state ==
    /\ mig.pc = "update_state"
    /\ LET sel == TrySelect(legacy[mig.cur], "update_state")
           res == MigrateCursors(update_state, mig.sn, sel[2])
       IN  IF sel[1] # ""
           THEN mig' = Raised(mig, sel[1]) /\ UNCHANGED update_state
           ELSE /\ update_state' = res[1]
                /\ mig' = IF res[2] # "" THEN Raised(mig, res[2])
                          ELSE [mig EXCEPT !.pc = "sent_files"]
    /\ MigOp("migrate_update_state")
    /\ UNCHANGED <<schema, version, sessions, entities, sent_files, mem,
                   clock, proc, tx, legacy>>

\* Lines 112-129: the cached files, and the return.
migrate_sent_files ==
    /\ mig.pc = "sent_files"
    /\ LET sel == TrySelect(legacy[mig.cur], "sent_files")
       IN  IF sel[1] # ""
           THEN mig' = Raised(mig, sel[1]) /\ UNCHANGED sent_files
           ELSE /\ sent_files' = MigrateFiles(sent_files, mig.sn, sel[2])
                /\ mig' = Returned(mig)
    /\ MigOp("migrate_sent_files")
    /\ UNCHANGED <<schema, version, sessions, entities, update_state, mem,
                   clock, proc, tx, legacy>>

\* Lines 133-135: migrate_directory checks dir_path and lists it.
migrate_directory ==
    /\ mig.pc = "listdir"
    /\ mig' = IF mig.isdir
              THEN [mig EXCEPT !.pc = "next", !.todo = DOMAIN legacy]
              ELSE [mig EXCEPT !.pc = "failed", !.raised = Some("NotADirectoryError")]
    /\ MigOp("migrate_directory")
    /\ UNCHANGED <<store, mem, clock, proc, tx, legacy>>

\* Lines 135-139: the next entry of the listing, in the order of the file
\* system; an entry without the suffix is passed over.
listdir_entry ==
    /\ mig.pc = "next"
    /\ \E entry \in mig.todo :
          mig' = IF EndsWithSession(entry)
                 THEN StartCall([mig EXCEPT !.todo = @ \ {entry}], entry, None)
                 ELSE [mig EXCEPT !.todo = @ \ {entry}]
    /\ MigOp("listdir_entry")
    /\ UNCHANGED <<store, mem, clock, proc, tx, legacy>>

\* The listing is exhausted: migrate_directory returns.
migrate_directory_return ==
    /\ mig.pc = "next"
    /\ mig.todo = {}
    /\ mig' = [mig EXCEPT !.pc = "batch_done"]
    /\ MigOp("migrate_directory_return")
    /\ UNCHANGED <<store, mem, clock, proc, tx, legacy>>

MaxFiles == 2     \* entries in the directory of a batch

EmptySessions == [Sound EXCEPT !.sessions = << >>]

\* The files a single call is given, and the files of the directories.
SingleFiles ==
    {Valid(d1, d2) : d1 \in LegacyDates, d2 \in LegacyDates}
      \cup {Absent, Corrupt, NullCursorDate, EmptySessions}
      \cup {Without(t) : t \in LegacyTables}
BatchFiles == {Sound, Corrupt, NullCursorDate}

Directories ==
    UNION {[S -> BatchFiles] : S \in {T \in SUBSET Entries : Cardinality(T) <= MaxFiles}}

\* The destination is a new database.
NewDatabase ==
    /\ schema = FALSE
    /\ version = {}
    /\ sessions = {}
    /\ entities = {}
    /\ update_state = {}

\* The destination holds session "a" already.
DatabaseInUse ==
    /\ schema = TRUE
    /\ version = {DATABASE_VERSION}
    /\ sessions = {[session_name |-> "a", dc_id |-> Some(4),
                    server_address |-> Some("old"), port |-> Some(80),
                    auth_key |-> "old", takeout_id |-> Some(3)]}
    /\ entities = {EntityRow("a", [id |-> 3, hash |-> 11, username |-> None,
                                   phone |-> None, name |-> None], Some(1))}
    /\ update_state = SetUpdateState({}, "a", 9,
                          [pts |-> 1, qts |-> 1, seq |-> 1, date |-> None])

\* One file is migrated into a new database or into one in use; a
\* directory is migrated into a new database.
InitMigrate ==
    /\ sent_files = {}
    /\ mem = [c \in Clients |-> NoClient]
    /\ clock = 1
    /\ op = NoOp
    /\ proc = << >>
    /\ tx = << >>
    /\ \/ /\ NewDatabase \/ DatabaseInUse
          /\ \E entry \in Entries : \E f \in SingleFiles :
             \E param \in {None, Some("a")} : \E importable \in BOOLEAN :
                /\ legacy = (entry :> f)
                /\ mig = StartCall(IdleMig("one", FALSE, importable), entry, param)
       \/ /\ NewDatabase
          /\ \E dir \in Directories : \E importable \in BOOLEAN :
                /\ legacy = dir
                /\ mig = IdleMig("dir", TRUE, importable)
       \/ /\ NewDatabase
          /\ legacy = << >>
          /\ mig = IdleMig("dir", FALSE, TRUE)

MigrateStep ==
    \/ migrate_open
    \/ migrate_sessions
    \/ migrate_entities
    \/ migrate_update_state
    \/ migrate_sent_files
    \/ migrate_directory
    \/ listdir_entry
    \/ migrate_directory_return

NextMigrate ==
    \/ migrate_open
    \/ migrate_sessions
    \/ migrate_entities
    \/ migrate_update_state
    \/ migrate_sent_files
    \/ migrate_directory
    \/ listdir_entry
    \/ migrate_directory_return
    \/ Tick

SpecMigrate == InitMigrate /\ [][NextMigrate]_vars

\* The command is one thread that runs on: a step that can be taken is taken.
SpecMigrateLive == SpecMigrate /\ WF_vars(MigrateStep)

(***************************************************************************)
(* Claims on migration.                                                    *)
(***************************************************************************)
ContentWithin(now, before) ==
    /\ now.sessions \subseteq before.sessions
    /\ now.entities \subseteq before.entities
    /\ now.update_state \subseteq before.update_state
    /\ now.sent_files \subseteq before.sent_files

\* C5 as claimed: a call of migrate_sqlite_to_sqlalchemy that fails leaves
\* in the destination no row of its session name that was not there when
\* the call began.
C5_AllOrNothing ==
    mig.raised # None => ContentWithin(Content(mig.sn), mig.before)

\* The rows of the destination session with a peer id of ids that hold
\* username u.
Holders(sn, ids, u) ==
    {r \in entities : r.session_name = sn /\ r.id \in ids /\ r.username = Some(u)}

\* C6 as claimed: once the entities of a legacy file are migrated, of two
\* legacy rows whose usernames are equal ignoring case exactly one holds the
\* lowercased username, the one with the later timestamp, or the one with a
\* timestamp when the other has none (null or zero).
C6_LaterOrPresentTimestampKeeps ==
    mig.pc \in {"update_state", "sent_files"} =>
        LET rows == TrySelect(legacy[mig.cur], "entities")[2]
        IN  \A i \in DOMAIN rows : \A j \in DOMAIN rows :
              (i # j /\ TruthyStr(rows[i].username) /\ TruthyStr(rows[j].username)
                 /\ Lower(rows[i].username[1]) = Lower(rows[j].username[1]))
              => LET h == Holders(mig.sn, {rows[i].id, rows[j].id},
                                  Lower(rows[i].username[1]))
                 IN  /\ Cardinality(h) = 1
                     /\ (TruthyInt(rows[i].date) /\ TruthyInt(rows[j].date)
                           /\ rows[i].date[1] > rows[j].date[1])
                          => h = Holders(mig.sn, {rows[i].id}, Lower(rows[i].username[1]))
                     /\ (TruthyInt(rows[i].date) /\ ~TruthyInt(rows[j].date))
                          => h = Holders(mig.sn, {rows[i].id}, Lower(rows[i].username[1]))

\* C7 as claimed: a legacy file that exists and reads well, and only lacks
\* one of the four tables, is migrated without an exception.
C7_MissingTableTolerated ==
    \A t \in LegacyTables :
        (mig.mode = "one" /\ legacy[mig.cur] = Without(t)) => mig.raised = None

\* The destination holds session sn with a row for every entity, cursor
\* and document or photo of the legacy file f.
FullyPresent(f, sn) ==
    /\ SessionRowsOf(sessions, sn) # {}
    /\ \A e \in Range(TrySelect(f, "entities")[2]) :
          \E r \in entities : r.session_name = sn /\ r.id = e.id
    /\ \A u \in Range(TrySelect(f, "update_state")[2]) :
          UpdateStateRowsOf(update_state, sn, u.id) # {}
    /\ \A s \in Range(TrySelect(f, "sent_files")[2]) :
          s.type \in {DOCUMENT, PHOTO} =>
             \E r \in sent_files :
                 /\ r.session_name = sn
                 /\ r.md5_digest = s.md5_digest
                 /\ r.file_size = s.file_size
                 /\ r.type = s.type

\* Every entry of the directory with the suffix has one printed outcome.
EveryFileAttempted ==
    /\ {o[1] : o \in Range(mig.outcomes)} = {e \in DOMAIN legacy : EndsWithSession(e)}
    /\ Len(mig.outcomes) = Cardinality({e \in DOMAIN legacy : EndsWithSession(e)})

\* C8: migrate_directory on a directory comes to its end, and stays there,
\* with an outcome printed for every entry that has the suffix, whichever
\* of them failed, and with the session of every file printed as migrated
\* present in the destination with its entities, cursors and files.
C8_BatchCompletes ==
    <>[]((mig.mode = "dir" /\ mig.isdir) =>
            /\ mig.pc = "batch_done"
            /\ EveryFileAttempted
            /\ \A o \in Range(mig.outcomes) :
                  o[2] = "Migrated" =>
                     FullyPresent(legacy[o[1]], DerivedName(None, o[1])))

\* A batch has ended in which a file was migrated after another had failed.
C8_MigratedAfterFailure ==
    /\ mig.pc = "batch_done"
    /\ \E i \in DOMAIN mig.outcomes : \E j \in DOMAIN mig.outcomes :
          /\ i < j
          /\ mig.outcomes[i][2] = "Failed"
          /\ mig.outcomes[j][2] = "Migrated"
          /\ FullyPresent(legacy[mig.outcomes[j][1]],
                          DerivedName(None, mig.outcomes[j][1]))

(***************************************************************************)
(* SpecSessions: the session row.  Two client objects of session "a" call  *)
(* set_dc and the setters of auth_key and takeout_id, one call at a time;  *)
(* either may be constructed anew at any time.  An AuthKey is its key      *)
(* bytes: an AuthKey with no key is falsy, as None is.                     *)
(***************************************************************************)
set_dc(c, dc_id, server_address, port) ==
    /\ mem[c].live
    /\ sessions' = SetDc(sessions, session_name(c), mem[c],
                         dc_id, server_address, port)[1]
    /\ mem' = [mem EXCEPT ![c] = SetDc(sessions, session_name(c), mem[c],
                                       dc_id, server_address, port)[2]]
    /\ op' = [name |-> "set_dc", client |-> c,
              arg |-> <<dc_id, server_address, port>>, ret |-> None]
    /\ UNCHANGED <<schema, version, entities, update_state, sent_files, clock,
                   proc, tx, legacy, mig>>

set_auth_key(c, value) ==
    /\ mem[c].live
    /\ sessions' = SetAuthKey(sessions, session_name(c), mem[c], value)[1]
    /\ mem' = [mem EXCEPT ![c] = SetAuthKey(sessions, session_name(c), mem[c], value)[2]]
    /\ op' = [name |-> "set_auth_key", client |-> c, arg |-> <<value>>, ret |-> None]
    /\ UNCHANGED <<schema, version, entities, update_state, sent_files, clock,
                   proc, tx, legacy, mig>>

set_takeout_id(c, value) ==
    /\ mem[c].live
    /\ sessions' = SetTakeoutId(sessions, session_name(c), mem[c], value)[1]
    /\ mem' = [mem EXCEPT ![c] = SetTakeoutId(sessions, session_name(c), mem[c], value)[2]]
    /\ op' = [name |-> "set_takeout_id", client |-> c, arg |-> <<value>>, ret |-> None]
    /\ UNCHANGED <<schema, version, entities, update_state, sent_files, clock,
                   proc, tx, legacy, mig>>

SessionClients == {"c1", "c2"}

Endpoints == {<<Some(2), Some("h"), Some(443)>>, <<None, Some("g"), Some(80)>>}
AuthKeys == {None, Some(""), Some("k")}
TakeoutIds == {None, Some(3)}

NextSessions ==
    \/ \E c \in SessionClients : Construct(c)
    \/ \E c \in SessionClients : \E e \in Endpoints : set_dc(c, e[1], e[2], e[3])
    \/ \E c \in SessionClients : \E value \in AuthKeys : set_auth_key(c, value)
    \/ \E c \in SessionClients : \E value \in TakeoutIds : set_takeout_id(c, value)

SpecSessions == Init /\ [][NextSessions]_vars

SetterNames == {"set_dc", "set_auth_key", "set_takeout_id"}

\* What a client object holds of the session record: the endpoint, the key
\* bytes (empty for no key) and the takeout id.
Held(m) ==
    [dc_id |-> m.dc_id, server_address |-> m.server_address, port |-> m.port,
     auth_key |-> IF m.auth_key # None THEN m.auth_key[1] ELSE "",
     takeout_id |-> m.takeout_id]

\* C11: a client object constructed on the session name right after a call
\* of set_dc, of the auth_key setter or of the takeout_id setter by another
\* object loads the endpoint, the key and the takeout id that object holds.
C11_SettersAreDurable ==
    [][(/\ op'.name = "init"
        /\ op.name \in SetterNames
        /\ op.client # op'.client
        /\ session_name(op.client) = session_name(op'.client))
         => Held(mem'[op'.client]) = Held(mem[op.client])]_vars

\* A second object has loaded an endpoint, a key and a takeout id that the
\* first one had set.
C11_ReloadedAfterSetters ==
    /\ op.name = "init"
    /\ op.client = "c2"
    /\ mem["c1"].live
    /\ Held(mem["c2"]) = Held(mem["c1"])
    /\ Held(mem["c2"]) = [dc_id |-> Some(2), server_address |-> Some("h"),
                          port |-> Some(443), auth_key |-> "k",
                          takeout_id |-> Some(3)]

\* C20 as claimed: with two objects on one session name, a call of set_dc
\* changes of the stored session row the endpoint only, the auth_key setter
\* the key only, the takeout_id setter the takeout id only.
C20_SetterChangesOnlyItsFields ==
    [][op'.name \in SetterNames =>
        \A before \in SessionRowsOf(sessions, session_name(op'.client)) :
        \A after \in SessionRowsOf(sessions', session_name(op'.client)) :
           /\ op'.name = "set_dc" =>
                 /\ after.auth_key = before.auth_key
                 /\ after.takeout_id = before.takeout_id
           /\ op'.name = "set_auth_key" =>
                 /\ after.dc_id = before.dc_id
                 /\ after.server_address = before.server_address
                 /\ after.port = before.port
                 /\ after.takeout_id = before.takeout_id
           /\ op'.name = "set_takeout_id" =>
                 /\ after.dc_id = before.dc_id
                 /\ after.server_address = before.server_address
                 /\ after.port = before.port
                 /\ after.auth_key = before.auth_key]_vars

(***************************************************************************)
(* Claims on the upsert of entities (SpecEntities).                        *)
(***************************************************************************)
\* The rows of session sn with peer id id.
EntityRowsOf(tbl, sn, id) == {r \in tbl : r.session_name = sn /\ r.id = id}

\* The row a process_entities call wrote last.
LastWritten(rows) == rows[Len(rows)]

\* C12 as claimed: after process_entities the session holds exactly one row
\* for every peer id of the call, and the row of the peer written last holds
\* the hash, username, phone and name of that write and the time of the call.
C12_UpsertReplacesTheRow ==
    [][op'.name = "process_entities" =>
        LET sn == session_name(op'.client) IN
        /\ \A i \in DOMAIN op'.arg :
              Cardinality(EntityRowsOf(entities', sn, op'.arg[i].id)) = 1
        /\ EntityRowsOf(entities', sn, LastWritten(op'.arg).id)
             = {EntityRow(sn, LastWritten(op'.arg), Some(clock))}]_vars

\* C19 as claimed: after process_entities wrote the entry (p, u) last, with
\* u not null, p is the one row of the session that holds u, whatever the
\* session held before, and a get_entity_rows_by_username(u) that follows
\* returns p.
C19_FreshUsernameResolvesToWriter ==
    [][/\ (op'.name = "process_entities"
             /\ TruthyStr(LastWritten(op'.arg).username))
          => RowsWithUsername(entities', session_name(op'.client),
                              LastWritten(op'.arg).username[1])
               = EntityRowsOf(entities', session_name(op'.client),
                              LastWritten(op'.arg).id)
       /\ (op.name = "process_entities"
             /\ op'.name = "get_entity_rows_by_username"
             /\ op'.client = op.client
             /\ LastWritten(op.arg).username = Some(op'.arg[1]))
          => op'.ret = Some(<<LastWritten(op.arg).id, LastWritten(op.arg).hash>>)]_vars

(***************************************************************************)
(* SpecLookup: the entity lookups of one client on session "a", over a     *)
(* table that concurrent writers have left with several holders of one     *)
(* username (C2) and with rows whose nullable date column is NULL.         *)
(***************************************************************************)
\* utils.get_peer_id marks a channel id with -(10^12 + id); the mark is
\* scaled down to fit the integers of the model checker.
ChannelMark == 1000

PeerKinds == {"PeerUser", "PeerChat", "PeerChannel"}

\* utils.get_peer_id(kind(id)) for a bare positive id.
get_peer_id(kind, id) ==
    CASE kind = "PeerUser" -> id
      [] kind = "PeerChat" -> -id
      [] kind = "PeerChannel" -> -(ChannelMark + id)

\* The list exact=False matches, had it left out the channel encoding.
InexactIdsNoChannel(id) ==
    {get_peer_id("PeerUser", id), get_peer_id("PeerChat", id)}

\* The ids get_entity_rows_by_id(id, exact=False) matches.
InexactIds(id) ==
    {get_peer_id("PeerUser", id), get_peer_id("PeerChat", id),
     get_peer_id("PeerChannel", id)}

\* What .first() may give for a select of (id, hash) over the given rows:
\* None without a row, else any of them (the select has no order).
First(rows) ==
    IF rows = {} THEN {None} ELSE {Some(<<r.id, r.hash>>) : r \in rows}

GetEntityRowsByPhone(tbl, sn, phone) ==
    First({r \in tbl : r.session_name = sn /\ r.phone = Some(phone)})

GetEntityRowsByName(tbl, sn, name) ==
    First({r \in tbl : r.session_name = sn /\ r.name = Some(name)})

GetEntityRowsById(tbl, sn, id, exact) ==
    IF exact
    THEN First({r \in tbl : r.session_name = sn /\ r.id = id})
    ELSE First({r \in tbl : r.session_name = sn /\ r.id \in InexactIds(id)})

get_entity_rows_by_phone(c, phone) ==
    /\ mem[c].live
    /\ \E ret \in GetEntityRowsByPhone(entities, session_name(c), phone) :
          op' = [name |-> "get_entity_rows_by_phone", client |-> c,
                 arg |-> <<phone>>, ret |-> ret]
    /\ UNCHANGED <<store, mem, clock, proc, tx, legacy, mig>>

get_entity_rows_by_name(c, name) ==
    /\ mem[c].live
    /\ \E ret \in GetEntityRowsByName(entities, session_name(c), name) :
          op' = [name |-> "get_entity_rows_by_name", client |-> c,
                 arg |-> <<name>>, ret |-> ret]
    /\ UNCHANGED <<store, mem, clock, proc, tx, legacy, mig>>

get_entity_rows_by_id(c, id, exact) ==
    /\ mem[c].live
    /\ \E ret \in GetEntityRowsById(entities, session_name(c), id, exact) :
          op' = [name |-> "get_entity_rows_by_id", client |-> c,
                 arg |-> <<id, exact>>, ret |-> ret]
    /\ UNCHANGED <<store, mem, clock, proc, tx, legacy, mig>>

\* The peer ids stored: peer 1 under each of its three encodings, and user 2.
LookupIds ==
    {get_peer_id(k, 1) : k \in PeerKinds} \cup {get_peer_id("PeerUser", 2)}
BareIds == {1, 2}
\* The lookups by id: exact ones of the stored ids, inexact ones of bare ids.
IdQueries == (LookupIds \X {TRUE}) \cup (BareIds \X {FALSE})

\* Each stored peer has a hash, a phone and a name of its own.
EntityHash(id) == IF id > 0 THEN 10 + id ELSE 20 - id
EntityPhone(id) ==
    CASE id = 1 -> "+1" [] id = 2 -> "+2" [] id = -1 -> "+3" [] OTHER -> "+4"
EntityName(id) ==
    CASE id = 1 -> "Ann" [] id = 2 -> "Bob" [] id = -1 -> "Group" [] OTHER -> "News"
Phones == {EntityPhone(id) : id \in LookupIds}
Names == {EntityName(id) : id \in LookupIds}

\* The input row of peer id with the given username.
LookupRow(id, username) ==
    [id |-> id, hash |-> EntityHash(id), username |-> username,
     phone |-> Some(EntityPhone(id)), name |-> Some(EntityName(id))]

\* The tables of session "a" the lookups start from: each peer absent, or
\* holding the username "bob" with a date up to now or none.
HeldDates == {None} \cup {Some(t) : t \in 1..MaxTime}
LookupTables ==
    {{EntityRow("a", LookupRow(id, Some("bob")), f[id]) : id \in present}
       : present \in SUBSET LookupIds, f \in [LookupIds -> HeldDates]}

InitLookup ==
    /\ schema = TRUE
    /\ version = {DATABASE_VERSION}
    /\ sessions = {InitialSessionRow("a", FreshMem)}
    /\ entities \in LookupTables
    /\ update_state = {}
    /\ sent_files = {}
    /\ mem = [c \in Clients |-> NoClient]
    /\ clock = MaxTime
    /\ op = NoOp
    /\ proc = << >>
    /\ tx = << >>
    /\ legacy = << >>
    /\ mig = << >>

NextLookup ==
    \/ Construct("c1")
    \/ \E id \in LookupIds : \E u \in {None, Some("bob")} :
          process_entities("c1", <<LookupRow(id, u)>>)
    \/ get_entity_rows_by_username("c1", "bob")
    \/ \E phone \in Phones : get_entity_rows_by_phone("c1", phone)
    \/ \E name \in Names : get_entity_rows_by_name("c1", name)
    \/ \E q \in IdQueries : get_entity_rows_by_id("c1", q[1], q[2])

SpecLookup == InitLookup /\ [][NextLookup]_vars

\* C13: a process_entities or get_entity_rows_by_username step deletes no
\* Entity row, and a row it changes without having been written by the call
\* (an evicted row) differs from before in its username only, which is
\* null: id, hash, phone, name and date are the same, so afterwards the
\* lookups by its phone, by its name and by its exact id return that row.
C13_EvictionNullsUsernameOnly ==
    [][op'.name \in {"process_entities", "get_entity_rows_by_username"} =>
        LET sn == session_name(op'.client)
            written == IF op'.name = "process_entities"
                       THEN {op'.arg[i].id : i \in DOMAIN op'.arg} ELSE {}
        IN  /\ Cardinality(entities') >= Cardinality(entities)
            /\ \A r \in entities :
                  (~(r.session_name = sn /\ r.id \in written) /\ r \notin entities')
                  => /\ r.session_name = sn
                     /\ EntityRowsOf(entities', sn, r.id)
                          = {[r EXCEPT !.username = None]}
                     /\ r.phone # None =>
                          GetEntityRowsByPhone(entities', sn, r.phone[1])
                            = {Some(<<r.id, r.hash>>)}
                     /\ r.name # None =>
                          GetEntityRowsByName(entities', sn, r.name[1])
                            = {Some(<<r.id, r.hash>>)}
                     /\ GetEntityRowsById(entities', sn, r.id, TRUE)
                          = {Some(<<r.id, r.hash>>)}]_vars

\* C13 witness: get_entity_rows_by_phone returned a row that was evicted:
\* its username is null and its date is not the time of any write of this
\* behaviour, so it held the username at the start.
C13_EvictedFoundByPhone ==
    /\ op.name = "get_entity_rows_by_phone"
    /\ \E r \in entities :
          /\ r.username = None
          /\ r.date # Some(MaxTime)
          /\ op.ret = Some(<<r.id, r.hash>>)

\* C15: get_entity_rows_by_id(n, exact=False) for a bare id n returns a row
\* whenever the session holds a row under the user, chat or channel
\* encoding of n, the row it returns is a row of the session stored under
\* one of these three ids, and the table is unchanged.
C15_InexactIdMatchesEveryEncoding ==
    [][(op'.name = "get_entity_rows_by_id" /\ op'.arg[2] = FALSE) =>
        LET sn == session_name(op'.client)
            n == op'.arg[1]
        IN  /\ \A k \in PeerKinds :
                  EntityRowsOf(entities, sn, get_peer_id(k, n)) # {}
                     => op'.ret # None
            /\ op'.ret # None =>
                  /\ op'.ret[1][1] \in {get_peer_id(k, n) : k \in PeerKinds}
                  /\ \E r \in entities : /\ r.session_name = sn
                                         /\ op'.ret = Some(<<r.id, r.hash>>)
            /\ entities' = entities]_vars

\* C15 witness: the session holds peer 1 under the channel encoding only,
\* and the inexact lookup of 1 returned that row.
C15_ChannelFoundByBareId ==
    /\ op.name = "get_entity_rows_by_id"
    /\ op.arg = <<1, FALSE>>
    /\ EntityRowsOf(entities, "a", 1) = {}
    /\ EntityRowsOf(entities, "a", -1) = {}
    /\ op.ret = Some(<<-(ChannelMark + 1), EntityHash(-(ChannelMark + 1))>>)

\* C17: a get_entity_rows_by_username(u) step on a session without a holder
\* of u returns None and leaves the table as it was; otherwise it returns
\* the id and hash of a holder no other holder has a greater date than (a
\* null date counting below every date), and afterwards that row is the
\* only row of the session that holds u.
C17_LookupKeepsLatestHolder ==
    [][op'.name = "get_entity_rows_by_username" =>
        LET sn == session_name(op'.client)
            held == RowsWithUsername(entities, sn, op'.arg[1])
        IN  IF held = {}
            THEN op'.ret = None /\ entities' = entities
            ELSE \E last \in held :
                    /\ \A q \in held : DateRank(q.date) <= DateRank(last.date)
                    /\ op'.ret = Some(<<last.id, last.hash>>)
                    /\ RowsWithUsername(entities', sn, op'.arg[1]) = {last}
                    /\ OtherRows(entities', sn) = OtherRows(entities, sn)]_vars

\* C17 witness: the lookup returned the one holder left, dated MaxTime,
\* while a row without a date and a row dated 1 have lost the username.
C17_OlderHoldersNulled ==
    /\ op.name = "get_entity_rows_by_username"
    /\ \E last \in RowsWithUsername(entities, "a", "bob") :
          /\ last.date = Some(MaxTime)
          /\ op.ret = Some(<<last.id, last.hash>>)
          /\ RowsWithUsername(entities, "a", "bob") = {last}
    /\ \E r1 \in entities : \E r2 \in entities :
          /\ r1.username = None /\ r1.date = None
          /\ r2.username = None /\ r2.date = Some(1)

(***************************************************************************)
(* Claims on the file cache.                                               *)
(***************************************************************************)
\* _SentFileType.from_type(cls) raises ValueError for any other class.
IsSentFileType(cls) == cls \in {"InputDocument", "InputPhoto"}

\* get_file: what it may return: None without a row, else cls(id, hash).
GetFile(tbl, sn, md5, size, cls) ==
    LET rows == {r \in tbl : /\ r.session_name = sn
                             /\ r.md5_digest = md5
                             /\ r.file_size = size
                             /\ r.type = SentFileType(cls)}
    IN  IF rows = {} THEN {None}
        ELSE {Some([cls |-> cls, id |-> r.id, access_hash |-> r.hash]) : r \in rows}

get_file(c, md5, size, cls) ==
    /\ mem[c].live
    /\ \E ret \in (IF IsSentFileType(cls)
                   THEN GetFile(sent_files, session_name(c), md5, size, cls)
                   ELSE {Some("ValueError")}) :
          op' = [name |-> "get_file", client |-> c, arg |-> <<md5, size, cls>>,
                 ret |-> ret]
    /\ UNCHANGED <<store, mem, clock, proc, tx, legacy, mig>>

(***************************************************************************)
(* SpecFiles: the file cache of two sessions.  Session "a" caches under    *)
(* three (digest, size) pairs and both kinds, with two remote ids; its     *)
(* neighbour "default" under one pair that "a" uses too.                   *)
(***************************************************************************)
FileKeys(c) ==
    IF session_name(c) = "a" THEN {<<"d", 1>>, <<"d", 2>>, <<"e", 1>>}
    ELSE {<<"d", 1>>}
RemoteIds(c) == IF session_name(c) = "a" THEN {5, 7} ELSE {9}
FileInstances(c) ==
    {[cls |-> cls, id |-> id, access_hash |-> id + 1]
       : cls \in {"InputDocument", "InputPhoto"}, id \in RemoteIds(c)}
FileClasses == {"InputDocument", "InputPhoto", "InputFile"}

NextFiles ==
    \/ \E c \in StoreClients : Construct(c)
    \/ \E c \in StoreClients : \E k \in FileKeys(c) :
          \E instance \in FileInstances(c) : cache_file(c, k[1], k[2], instance)
    \/ \E c \in StoreClients : \E k \in FileKeys(c) : \E cls \in FileClasses :
          get_file(c, k[1], k[2], cls)

SpecFiles == Init /\ [][NextFiles]_vars

\* C16: a cache_file step whose reference is neither an InputDocument nor
\* an InputPhoto ends in a TypeError and leaves the sent_files table exactly
\* as it was before the call.
C16_InvalidReferenceRejected ==
    [][(/\ op'.name = "cache_file"
        /\ op'.arg[3].cls \notin {"InputDocument", "InputPhoto"})
          => /\ op'.ret = Some("TypeError")
             /\ sent_files' = sent_files]_vars

\* C16 witness: a cache_file call with an InputFile was rejected while the
\* table held rows of the same session.
C16_RejectedOnFilledCache ==
    /\ op.name = "cache_file"
    /\ op.arg[3].cls = "InputFile"
    /\ op.ret = Some("TypeError")
    /\ \E r \in sent_files : r.session_name = session_name(op.client)

\* The rows of sent_files under the key (sn, md5, size, type).
SentFileRowsOf(tbl, sn, md5, size, type) ==
    {r \in tbl : /\ r.session_name = sn /\ r.md5_digest = md5
                 /\ r.file_size = size /\ r.type = type}

\* The type column of a reference class: 0 for a document, 1 for a photo.
KindOf(cls) == IF cls = "InputDocument" THEN 0 ELSE 1

\* C18: the file cache is a last-write-wins map over the key (session name,
\* digest, size, kind).  A cache_file step of a document or photo reference
\* leaves under its key exactly one row, with the id and hash of the
\* reference, and every row under another key (the other kind of the same
\* digest and size included) as it was; a get_file step returns the id and
\* hash of the row under its key, or None without one, and changes no row;
\* so a get_file returns what the latest cache_file with its key stored.
\* No step leaves two rows under one key.
C18_FileCacheLastWriteWins ==
    [][/\ (op'.name = "cache_file" /\ op'.ret = None) =>
            LET sn == session_name(op'.client)
                md5 == op'.arg[1]
                size == op'.arg[2]
                type == KindOf(op'.arg[3].cls)
                under == SentFileRowsOf(sent_files', sn, md5, size, type)
            IN  /\ under = {[session_name |-> sn, md5_digest |-> md5,
                             file_size |-> size, type |-> type,
                             id |-> op'.arg[3].id,
                             hash |-> op'.arg[3].access_hash]}
                /\ sent_files' \ under
                     = sent_files \ SentFileRowsOf(sent_files, sn, md5, size, type)
       /\ (op'.name = "get_file" /\ op'.arg[3] \in {"InputDocument", "InputPhoto"}) =>
            LET under == SentFileRowsOf(sent_files, session_name(op'.client),
                                        op'.arg[1], op'.arg[2], KindOf(op'.arg[3]))
            IN  /\ sent_files' = sent_files
                /\ under = {} => op'.ret = None
                /\ \A r \in under :
                      op'.ret = Some([cls |-> op'.arg[3], id |-> r.id,
                                      access_hash |-> r.hash])
       /\ \A r \in sent_files' :
            SentFileRowsOf(sent_files', r.session_name, r.md5_digest,
                           r.file_size, r.type) = {r}]_vars

\* C18 witness: get_file returned the photo cached under a digest and size,
\* remote id 7, while the document under the same digest and size has
\* remote id 5 and the neighbour session holds its own row for that key.
C18_KindsKeptApart ==
    /\ op.name = "get_file"
    /\ op.client = "c1"
    /\ op.arg = <<"d", 1, "InputPhoto">>
    /\ op.ret = Some([cls |-> "InputPhoto", id |-> 7, access_hash |-> 8])
    /\ \E r \in SentFileRowsOf(sent_files, "a", "d", 1, DOCUMENT) : r.id = 5
    /\ \E r \in SentFileRowsOf(sent_files, "default", "d", 1, PHOTO) : r.id = 9

(***************************************************************************)
(* SpecTenants: every operation of a client of session "a" (c1) next to a  *)
(* neighbour session "default" (c3) that stores rows under the same peer   *)
(* id, username, phone, name, entity id and file key, with values of its   *)
(* own.                                                                    *)
(***************************************************************************)
\* get_update_states: the (id, State) pairs of the session.
GetUpdateStates(tbl, sn) ==
    {<<r.id, [pts |-> r.pts, qts |-> r.qts, date |-> ColumnToDate(r.date),
              seq |-> r.seq]>> : r \in {q \in tbl : q.session_name = sn}}

get_update_states(c) ==
    /\ mem[c].live
    /\ op' = [name |-> "get_update_states", client |-> c, arg |-> None,
              ret |-> Some(GetUpdateStates(update_state, session_name(c)))]
    /\ UNCHANGED <<store, mem, clock, proc, tx, legacy, mig>>

\* The inputs of each tenant.
TenantHash(c, id) == IF session_name(c) = "a" THEN EntityHash(id) ELSE 99
TenantRows(c) ==
    IF session_name(c) = "a"
    THEN {[LookupRow(id, u) EXCEPT !.hash = TenantHash(c, id)]
            : id \in {1, 2}, u \in {None, Some("bob")}}
    ELSE {[LookupRow(1, Some("bob")) EXCEPT !.hash = TenantHash(c, 1)]}
TenantState(c) ==
    [pts |-> IF session_name(c) = "a" THEN 100 ELSE 200, qts |-> 50, seq |-> 7,
     date |-> Some(DateTime(1))]
TenantFile(c) ==
    [cls |-> "InputDocument", id |-> IF session_name(c) = "a" THEN 5 ELSE 9,
     access_hash |-> 6]

NextTenants ==
    \/ \E c \in StoreClients : Construct(c)
    \/ set_dc("c1", Some(2), Some("h"), Some(443))
    \/ set_auth_key("c1", Some("k"))
    \/ set_takeout_id("c1", Some(3))
    \/ \E c \in StoreClients : \E e \in TenantRows(c) : process_entities(c, <<e>>)
    \/ get_entity_rows_by_username("c1", "bob")
    \/ get_entity_rows_by_phone("c1", EntityPhone(1))
    \/ get_entity_rows_by_name("c1", EntityName(1))
    \/ \E exact \in BOOLEAN : get_entity_rows_by_id("c1", 1, exact)
    \/ \E c \in StoreClients : set_update_state(c, 1, TenantState(c))
    \/ get_update_state("c1", 1)
    \/ get_update_states("c1")
    \/ \E c \in StoreClients : cache_file(c, "d", 1, TenantFile(c))
    \/ get_file("c1", "d", 1, "InputDocument")
    \/ delete("c1")

SpecTenants == Init /\ [][NextTenants]_vars

\* The rows of a table that belong to session sn.
OwnRows(tbl, sn) == {r \in tbl : r.session_name = sn}

EntityLookups ==
    {"get_entity_rows_by_username", "get_entity_rows_by_phone",
     "get_entity_rows_by_name", "get_entity_rows_by_id"}

\* C14: a step of a client bound to session name A leaves the rows of every
\* other session name in the four tables as they were, and what it returns
\* or loads comes from a row of A: the fields the constructor loads, the
\* (id, hash) of an entity lookup, the State of get_update_state, each pair
\* of get_update_states and the reference of get_file.
C14_TenancyIsolation ==
    [][op'.client \in Clients =>
        LET sn == session_name(op'.client) IN
        /\ OtherRows(sessions', sn) = OtherRows(sessions, sn)
        /\ OtherRows(entities', sn) = OtherRows(entities, sn)
        /\ OtherRows(update_state', sn) = OtherRows(update_state, sn)
        /\ OtherRows(sent_files', sn) = OtherRows(sent_files, sn)
        /\ op'.name = "init" =>
              \E r \in OwnRows(sessions', sn) : mem'[op'.client] = LoadedMem(r)
        /\ (op'.name \in EntityLookups /\ op'.ret # None) =>
              \E r \in OwnRows(entities, sn) : op'.ret = Some(<<r.id, r.hash>>)
        /\ (op'.name = "get_update_state" /\ op'.ret # None) =>
              \E r \in OwnRows(update_state, sn) :
                 /\ r.id = op'.arg[1]
                 /\ op'.ret[1].pts = r.pts /\ op'.ret[1].qts = r.qts
                 /\ op'.ret[1].seq = r.seq
        /\ op'.name = "get_update_states" =>
              \A pair \in op'.ret[1] :
                 \E r \in OwnRows(update_state, sn) :
                    /\ pair[1] = r.id
                    /\ pair[2].pts = r.pts /\ pair[2].qts = r.qts
                    /\ pair[2].seq = r.seq
        /\ (op'.name = "get_file" /\ op'.ret # None) =>
              \E r \in OwnRows(sent_files, sn) :
                 /\ r.md5_digest = op'.arg[1] /\ r.file_size = op'.arg[2]
                 /\ op'.ret[1].id = r.id /\ op'.ret[1].access_hash = r.hash]_vars

\* C14 witness: the client of "a" looked a phone up and got its own row
\* (hash 11) while the neighbour holds a row of the same peer id, phone and
\* username with hash 99, and rows of its own in the other three tables.
C14_OwnRowAmongNeighbours ==
    /\ op.name = "get_entity_rows_by_phone"
    /\ op.client = "c1"
    /\ op.ret = Some(<<1, EntityHash(1)>>)
    /\ \E r \in OwnRows(entities, "default") :
          /\ r.id = 1 /\ r.hash = 99 /\ r.phone = Some(op.arg[1])
          /\ r.username = Some("bob")
    /\ \E r \in OwnRows(entities, "a") : r.id = 1 /\ r.username = Some("bob")
    /\ OwnRows(sessions, "default") # {}
    /\ OwnRows(update_state, "default") # {}
    /\ OwnRows(sent_files, "default") # {}

(***************************************************************************)
(* Claims on the session record of a session that owns rows.               *)
(***************************************************************************)
\* C21 as claimed: in every state, a session name that owns a row of
\* entities, update_state or sent_files owns exactly one row of sessions.
C21_OwnerHasSessionRecord ==
    \A sn \in SessionNames :
        (\/ OwnRows(entities, sn) # {}
         \/ OwnRows(update_state, sn) # {}
         \/ OwnRows(sent_files, sn) # {})
        => Cardinality(SessionRowsOf(sessions, sn)) = 1

(***************************************************************************)
(* Claims on the session names of a batch migration (SpecMigrate).         *)
(***************************************************************************)
\* C22 as claimed: while migrate_directory migrates an entry, no other
\* entry of the directory that it has migrated before derived the session
\* name of this one, so the call writes to a session no other file of the
\* batch was written to.
C22_DerivedNamesInjective ==
    (mig # << >> /\ mig.mode = "dir"
       /\ mig.pc \notin {"listdir", "next", "batch_done", "failed"})
    => \A i \in DOMAIN mig.outcomes :
          (mig.outcomes[i][1] # mig.cur /\ mig.outcomes[i][2] = "Migrated")
          => DerivedName(None, mig.outcomes[i][1]) # DerivedName(None, mig.cur)

====
